---- MODULE Spec2Model ----
(***************************************************************************)
(* A model of three subsystems of the documentation pipeline:              *)
(*   - run_agent_loop      (src/src/agentic_rag_pipeline.py)               *)
(*   - MarkdownWriter      (src/src/markdown_writer.py)                    *)
(*   - run_indexing        (src/src/util.py) over QdrantStore              *)
(*                         (src/src/store_qdrant.py)                       *)
(* Each subsystem has its own specification (SpecLoop, SpecDoc, SpecIndex) *)
(* over the same variables; a specification leaves the variables of the    *)
(* other subsystems at their initial values.                               *)
(***************************************************************************)
EXTENDS Integers, Sequences, FiniteSets, TLC

VARIABLES
    \* ---- run_agent_loop ----
    max_steps,    \* the max_steps argument
    i,            \* number of loop iterations completed (the for-loop index)
    pc,           \* "running" | "returned" | "raised"
    history,      \* the local list `history`
    log,          \* the entries appended to agent_history.log by this run
    chainBound,   \* whether the local `chain` has been assigned
    invoked,      \* what the latest chain.invoke did (a response record)
    response,     \* the local `response` (kind "unbound" until first assigned)
    calls,        \* number of chain.invoke calls made
    toolCalls,    \* number of execute_tool calls made
    tool_out,     \* the local `tool_out` (empty until a tool was called)
    result,       \* the returned payload (action "none" until returned)
    \* ---- MarkdownWriter ----
    docExists,    \* file_path.exists()
    text,         \* the file's text, a sequence of tokens
    lastOp,       \* the last writer call and its arguments
    \* ---- run_indexing ----
    store,        \* the collection: point id -> payload
    current,      \* the symbols the extractor returns for the changed file
    idxPc,        \* "idle" | "returned" | "raised"
    readOk,       \* whether the pass read the stored points
    changed_ids,  \* symbol ids of changed_symbols
    skipped_ids,  \* symbol ids counted in skipped_count
    deleted_ids,  \* deleted_ids_all
    \* ---- QdrantStore.add called directly ----
    lastAdd,      \* the last add call: its metadatas and the points before it
    \* ---- execute_tool called directly ----
    lastCall,     \* the last execute_tool call: the name and what the tool did
    observations, \* the strings the calls returned, in order
    toolRaised,   \* whether a call of execute_tool raised
    \* ---- process_pipeline ----
    pipePc,       \* "index" | "files" | "symbols" | "done" | "raised"
    changed_files, \* the list get_git_diff_files() returns
    changed_symbols, \* the changed_symbols list run_indexing returned
    files,        \* the entries of changed_symbols_by_file not yet visited
    queue,        \* the changed symbols of the file in hand not yet visited
    docs,         \* the documents: md name -> [exists, text]
    processed,    \* the symbol ids whose section this run wrote, in order
    failed,       \* the symbol ids whose handling failed in this run
    \* ---- parse_symbols_file ----
    srcFile,      \* the source file: its lines, each a text and a terminator
    span,         \* [start, end]: the lines of the symbol, as ast counts them
    content_hash, \* the hash the latest extraction gave the symbol
    \* ---- the retrieval context of process_pipeline ----
    ctxQuery,     \* sym.qualname, the name the search is made for
    results,      \* what store.search returned, in rank order
    context_str   \* the context handed to the research phase

loopVars == <<max_steps, i, pc, history, log, chainBound, invoked, response,
              calls, toolCalls, tool_out, result>>
docVars == <<docExists, text, lastOp>>
idxVars == <<store, current, idxPc, readOk, changed_ids, skipped_ids,
             deleted_ids>>
storeVars == <<lastAdd>>
toolVars == <<lastCall, observations, toolRaised>>
pipeVars == <<pipePc, changed_files, changed_symbols, files, queue, docs,
              processed, failed>>
hashVars == <<srcFile, span, content_hash>>
ctxVars == <<ctxQuery, results, context_str>>
vars == <<loopVars, docVars, idxVars, storeVars, toolVars, pipeVars,
          hashVars, ctxVars>>

\* The variables a subsystem leaves alone.
notLoopVars == <<docVars, idxVars, storeVars, toolVars, pipeVars,
                hashVars, ctxVars>>
notDocVars == <<loopVars, idxVars, storeVars, toolVars, pipeVars,
                hashVars, ctxVars>>
notIdxVars == <<loopVars, docVars, storeVars, toolVars, pipeVars,
                hashVars, ctxVars>>

(***************************************************************************)
(*                            run_agent_loop                               *)
(***************************************************************************)

\* Largest max_steps tried.
MaxStepsBound == 3
\* Number of distinct response texts the completion service can produce.
NumTexts == 2

\* The registered tools.
AVAILABLE_TOOLS == {"search_code"}

\* The length above which a tool output is truncated.
TruncLimit == 1000

\* What one chain.invoke can do.  kind:
\*   "finish"   JSON object whose action is "FINISH"
\*   "tool"     JSON object whose action is "search_code"
\*   "doc_tool" JSON object whose action is "get_doc_for_symbol"
\*   "dir_tool" JSON object whose action is "list_directory"
\*   "unknown"  JSON object whose action is another string, a number or
\*              null, or is missing
\*   "unhashable" JSON object whose action is a list or an object
\*              (`action in AVAILABLE_TOOLS` raises TypeError)
\*   "badjson"  text json.loads rejects (JSONDecodeError)
\*   "nondict"  valid JSON that is no object (data.get raises AttributeError)
\*   "raise"    the call itself raises an exception other than
\*              json.JSONDecodeError
\*   "raise_json" the call itself raises json.JSONDecodeError (the service
\*              answered with a body its client cannot decode)
\* txt identifies the text of the response.
ResponseKinds ==
    {"finish", "tool", "doc_tool", "dir_tool", "unknown", "unhashable",
     "badjson", "nondict", "raise", "raise_json"}
Responses == [kind : ResponseKinds, txt : 1..NumTexts]

Unbound == [kind |-> "unbound", txt |-> 0]
NoResult == [action |-> "none", src |-> "none", txt |-> 0]

\* data.get("action") of a response that parsed to an object.
ActionOf(r) ==
    CASE r.kind = "finish" -> "FINISH"
      [] r.kind = "tool" -> "search_code"
      [] r.kind = "doc_tool" -> "get_doc_for_symbol"
      [] r.kind = "dir_tool" -> "list_directory"
      [] r.kind = "unhashable" -> "unhashable_action"
      [] OTHER -> "other_action"

\* The payloads the function can return.
\*   src "data"          the parsed object itself
\*   src "str_data"      {"action": "FINISH", "analysis": str(data)}
\*   src "str_response"  {"action": "FINISH", "analysis": str(response)}
ReturnData(r) == [action |-> ActionOf(r), src |-> "data", txt |-> r.txt]
WrapData(r) == [action |-> "FINISH", src |-> "str_data", txt |-> r.txt]
WrapResponse(r) == [action |-> "FINISH", src |-> "str_response", txt |-> r.txt]

\* A string is a sequence of pieces; the piece [src, len] is the first len
\* characters of the text named src.
Piece(src, len) == [src |-> src, len |-> len]

RECURSIVE StrLen(_)
StrLen(str) == IF str = <<>> THEN 0 ELSE Head(str).len + StrLen(Tail(str))

\* str[:k]
RECURSIVE Take(_, _)
Take(str, k) ==
    IF k <= 0 \/ str = <<>> THEN <<>>
    ELSE IF Head(str).len <= k
           THEN <<Head(str)>> \o Take(Tail(str), k - Head(str).len)
           ELSE <<Piece(Head(str).src, k)>>

\* The tool names a response can ask for, with len(name).
ToolNames == {"search_code", "list_directory", "get_doc_for_symbol"}
NameLen(name) ==
    CASE name = "search_code" -> 11
      [] name = "list_directory" -> 14
      [] name = "get_doc_for_symbol" -> 18

\* What tool_func.invoke(args) does: return a text or raise an exception
\* whose message is a text, of one of these lengths.
ToolBehaviours ==
    {[raises |-> FALSE, len |-> TruncLimit],
     [raises |-> FALSE, len |-> TruncLimit + 1],
     [raises |-> TRUE, len |-> 1],
     [raises |-> TRUE, len |-> TruncLimit]}

\* f"Error: Tool {name} not found."
NotFoundText(name) ==
    <<Piece("Error: Tool ", 12), Piece(name, NameLen(name)),
      Piece(" not found.", 11)>>

\* f"Error executing tool '{name}': {e}"
ExecErrorText(name, len) ==
    <<Piece("Error executing tool '", 22), Piece(name, NameLen(name)),
      Piece("': ", 3), Piece("exception message", len)>>

\* execute_tool without the try block: an exception of the tool escapes.
ExecuteToolNoCatch(name, beh) ==
    IF name \notin AVAILABLE_TOOLS
      THEN [raised |-> FALSE, value |-> NotFoundText(name)]
      ELSE IF beh.raises
             THEN [raised |-> TRUE, value |-> <<>>]
             ELSE [raised |-> FALSE,
                   value |-> <<Piece("tool result", beh.len)>>]

\* execute_tool(name, args): whether it raises, and the string it returns.
ExecuteTool(name, beh) ==
    IF name \notin AVAILABLE_TOOLS
      THEN [raised |-> FALSE, value |-> NotFoundText(name)]
      ELSE IF beh.raises
             THEN [raised |-> FALSE, value |-> ExecErrorText(name, beh.len)]
             ELSE [raised |-> FALSE,
                   value |-> <<Piece("tool result", beh.len)>>]

\* Truncate without the marker.
TruncateNoMarker(str) ==
    IF StrLen(str) > TruncLimit THEN Take(str, TruncLimit) ELSE str

\* tool_out_hist: the tool output as it is put into history.
Truncate(str) ==
    IF StrLen(str) > TruncLimit
      THEN Take(str, TruncLimit) \o <<Piece("...(truncated)", 14)>>
      ELSE str

\* An entry of `history`: the branch that made it and, for a tool call, the
\* Result part of the entry.
HistoryEntry(branch, res) == [kind |-> branch, result |-> res]

\* StepBranch without the FINISH test: a FINISH response falls through to the
\* unknown-action branch.
StepBranchNoFinishTest(r, prev) ==
    CASE r.kind = "raise" -> "error"
      [] r.kind = "raise_json" ->
            IF prev.kind = "unbound" THEN "raised" ELSE "badjson"
      [] r.kind = "badjson" -> "badjson"
      [] r.kind = "nondict" -> "error"
      [] r.kind = "unhashable" -> "error"
      [] ActionOf(r) \in AVAILABLE_TOOLS -> "tool"
      [] OTHER -> "unknown"

\* StepBranch without the registry test: every action other than FINISH is
\* handed to execute_tool.
StepBranchNoRegistryTest(r, prev) ==
    CASE r.kind = "raise" -> "error"
      [] r.kind = "raise_json" ->
            IF prev.kind = "unbound" THEN "raised" ELSE "badjson"
      [] r.kind = "badjson" -> "badjson"
      [] r.kind = "nondict" -> "error"
      [] ActionOf(r) = "FINISH" -> "finish"
      [] r.kind = "unhashable" -> "error"
      [] OTHER -> "tool"

\* StepBranch with one handler for every exception: invalid JSON gets the
\* generic error note, not the corrective one.
StepBranchOneHandler(r, prev) ==
    CASE r.kind = "raise" -> "error"
      [] r.kind = "raise_json" -> "error"
      [] r.kind = "badjson" -> "error"
      [] r.kind = "nondict" -> "error"
      [] ActionOf(r) = "FINISH" -> "finish"
      [] r.kind = "unhashable" -> "error"
      [] ActionOf(r) \in AVAILABLE_TOOLS -> "tool"
      [] OTHER -> "unknown"

\* Branch of one loop iteration taken for response r, prev being the value
\* of `response` before the call.  A JSONDecodeError is handled by the
\* invalid-JSON handler wherever it was raised; the handler reads `response`,
\* which the raising call has not assigned: with `response` unbound it
\* raises UnboundLocalError ("raised": the exception leaves the function).
StepBranch(r, prev) ==
    CASE r.kind = "raise" -> "error"
      [] r.kind = "raise_json" ->
            IF prev.kind = "unbound" THEN "raised" ELSE "badjson"
      [] r.kind = "badjson" -> "badjson"
      [] r.kind = "nondict" -> "error"
      [] ActionOf(r) = "FINISH" -> "finish"
      [] r.kind = "unhashable" -> "error"
      [] ActionOf(r) \in AVAILABLE_TOOLS -> "tool"
      [] OTHER -> "unknown"

\* One iteration of `for i in range(max_steps)`.  In the tool branch beh is
\* what the tool does; an exception escaping execute_tool would be caught by
\* the generic handler.
LoopStep ==
    /\ pc = "running"
    /\ i < max_steps
    /\ \E r \in Responses, beh \in ToolBehaviours :
         LET called == StepBranch(r, response) = "tool"
             ex == ExecuteTool(ActionOf(r), beh)
             b == IF called /\ ex.raised THEN "error"
                  ELSE StepBranch(r, response)
         IN
         /\ chainBound' = TRUE
         /\ invoked' = r
         /\ calls' = calls + 1
         /\ response' = IF r.kind \in {"raise", "raise_json"} THEN response
                        ELSE r
         /\ toolCalls' = IF called THEN toolCalls + 1 ELSE toolCalls
         /\ tool_out' = IF called /\ ~ex.raised THEN ex.value ELSE tool_out
         /\ IF b = "finish"
              THEN /\ pc' = "returned"
                   /\ result' = ReturnData(r)
                   /\ history' = history
                   /\ i' = i
                   /\ log' = Append(log, b)
              ELSE IF b = "raised"
              THEN /\ pc' = "raised"
                   /\ UNCHANGED <<result, history, i, log>>
              ELSE /\ pc' = "running"
                   /\ result' = result
                   /\ history' =
                         Append(history,
                                HistoryEntry(b, IF b = "tool"
                                                  THEN Truncate(ex.value)
                                                  ELSE <<>>))
                   /\ i' = i + 1
                   /\ log' = Append(log, b)
    /\ UNCHANGED <<max_steps, notLoopVars>>

\* Outcome of the fallback attempt for response r, given whether `response`
\* was bound before the call: <<pc, result>>.
FallbackOutcome(r, prev) ==
    CASE r.kind \in {"raise", "raise_json"} ->
            IF prev.kind = "unbound" THEN <<"raised", NoResult>>
            ELSE <<"returned", WrapResponse(prev)>>
      [] r.kind \in {"badjson", "nondict"} -> <<"returned", WrapResponse(r)>>
      [] ActionOf(r) = "FINISH" -> <<"returned", ReturnData(r)>>
      [] OTHER -> <<"returned", WrapData(r)>>

\* The code after the for-loop: the forced fallback attempt.
Fallback ==
    /\ pc = "running"
    /\ i = max_steps
    /\ history' = Append(history, HistoryEntry("forced", <<>>))
    /\ IF ~chainBound
         THEN \* chain.invoke raises UnboundLocalError inside the try; the
              \* handler evaluates str(response) with response unbound.
              /\ pc' = "raised"
              /\ UNCHANGED <<calls, invoked, response, result>>
         ELSE \E r \in Responses :
              /\ calls' = calls + 1
              /\ invoked' = r
              /\ response' = IF r.kind \in {"raise", "raise_json"}
                             THEN response ELSE r
              /\ pc' = FallbackOutcome(r, response)[1]
              /\ result' = FallbackOutcome(r, response)[2]
    /\ UNCHANGED <<max_steps, i, log, chainBound, toolCalls, tool_out,
                   notLoopVars>>

NextLoop == LoopStep \/ Fallback

(***************************************************************************)
(*                      execute_tool called directly                       *)
(***************************************************************************)

\* Number of execute_tool calls made in a row.
MaxObservations == 3

NoCall == [op |-> "none", name |-> "", beh |-> [raises |-> FALSE, len |-> 0]]

\* execute_tool(name, args) where the tool, if registered, does beh.
ExecuteToolCall ==
    /\ Len(observations) < MaxObservations
    /\ ~toolRaised
    /\ \E name \in ToolNames, beh \in ToolBehaviours :
         LET ex == ExecuteTool(name, beh) IN
         /\ lastCall' = [op |-> "call", name |-> name, beh |-> beh]
         /\ toolRaised' = ex.raised
         /\ observations' = IF ex.raised THEN observations
                             ELSE Append(observations, ex.value)
    /\ UNCHANGED <<loopVars, docVars, idxVars, storeVars, pipeVars,
                   hashVars, ctxVars>>

NextTool == ExecuteToolCall

(***************************************************************************)
(*                             MarkdownWriter                              *)
(* A text is a sequence of tokens.  A token is a marker literal or a piece *)
(* of text holding no marker syntax:                                       *)
(*   Begin(id)    "<!-- BEGIN: auto:{id} -->"                              *)
(*   End(id)      "<!-- END: auto:{id} -->"                                *)
(*   Ch("nl")     "\n"                                                     *)
(*   Ch("x")      an ordinary character                                    *)
(*   Ch("y")      another ordinary character                               *)
(*   Ch("bsn")    the two characters backslash, n                          *)
(*   Ch("cr")     "\r"                                                     *)
(*   Ch("hr")     "---"                                                    *)
(*   Ch("title")  "# API Documentation: {file_path.stem}"                  *)
(***************************************************************************)

\* Longest ordered_symbol_ids list tried.
MaxListLen == 2

Ids == {"a", "b", "c"}

Ch(c) == [k |-> "c", v |-> c]
Begin(id) == [k |-> "B", v |-> id]
End(id) == [k |-> "E", v |-> id]
NL == Ch("nl")

\* The content arguments tried.
Contents ==
    {<<Ch("y")>>, <<Ch("x"), Ch("bsn"), Ch("y")>>, <<Ch("x"), Ch("cr"), Ch("y")>>}

\* The ordered_symbol_ids arguments tried.
IdLists == UNION {[1..n -> Ids] : n \in 0..MaxListLen}

\* Hand-written files the writer may find: text without marker syntax,
\* text with an open marker that no close marker follows, text with a
\* close marker alone, and text with blocks written by hand.
InitTexts ==
    {<<>>, <<Ch("x"), NL>>, <<NL, Ch("x"), NL, NL, NL>>,
     <<Ch("x"), Ch("cr"), NL, Ch("y"), Ch("cr"), NL>>,
     <<Ch("x"), NL, Begin("a"), NL, Ch("y"), NL>>,
     <<Ch("x"), NL, End("a"), NL>>,
     <<Ch("x"), NL, NL, Begin("b"), NL, Ch("y"), NL, End("b"), NL, NL,
       Begin("a"), NL, Ch("y"), NL, End("a"), NL>>}

\* Smallest index >= from of a token satisfying the test, 0 when none.
FindTok(t, tok, from) ==
    LET hits == {p \in from..Len(t) : t[p] = tok}
    IN IF hits = {} THEN 0 ELSE CHOOSE p \in hits : \A q \in hits : p <= q

FindBegin(t, from) ==
    LET hits == {p \in from..Len(t) : t[p].k = "B"}
    IN IF hits = {} THEN 0 ELSE CHOOSE p \in hits : \A q \in hits : p <= q

\* What re's template expansion does to the replacement string: the escape
\* backslash-n becomes a newline; the other tokens hold no backslash.
ExpandTemplate(repl) ==
    [p \in 1..Len(repl) |-> IF repl[p] = Ch("bsn") THEN NL ELSE repl[p]]

\* new_section: the rendered block.
NewSection(id, content) == <<Begin(id), NL>> \o content \o <<NL, End(id)>>

\* pattern.search(text): the leftmost open marker of id with a close marker
\* of id after it.
PatternSearch(t, id) ==
    LET b == FindTok(t, Begin(id), 1)
    IN b # 0 /\ FindTok(t, End(id), b + 1) # 0

\* pattern.sub(repl, text) from position pos on: every non-overlapping
\* non-greedy match, left to right, replaced by the expanded template.
RECURSIVE PatternSubFrom(_, _, _, _)
PatternSubFrom(t, id, repl, pos) ==
    LET b == FindTok(t, Begin(id), pos)
        e == IF b = 0 THEN 0 ELSE FindTok(t, End(id), b + 1)
    IN IF e = 0 THEN SubSeq(t, pos, Len(t))
       ELSE SubSeq(t, pos, b - 1) \o ExpandTemplate(repl)
            \o PatternSubFrom(t, id, repl, e + 1)

DefaultHeader == <<Ch("title"), NL, NL>>

\* file_path.read_text(encoding="utf-8") of the file holding t: the file is
\* opened in text mode, which reads "\r\n" and a lone "\r" as "\n".
\* (write_text writes "\n" and "\r" as they are where os.linesep is "\n".)
RECURSIVE ReadFileText(_)
ReadFileText(t) ==
    IF t = <<>> THEN <<>>
    ELSE IF Head(t) = Ch("cr")
      THEN <<NL>> \o ReadFileText(IF Len(t) >= 2 /\ t[2] = NL
                                    THEN Tail(Tail(t)) ELSE Tail(t))
      ELSE <<Head(t)>> \o ReadFileText(Tail(t))

\* The text write_section writes.
WriteSection(exists, t, id, content) ==
    LET t0 == IF exists THEN ReadFileText(t) ELSE DefaultHeader
        new_section == NewSection(id, content)
    IN IF PatternSearch(t0, id)
         THEN PatternSubFrom(t0, id, new_section, 1)
         ELSE t0 \o <<NL, NL>> \o new_section \o <<NL, NL, Ch("hr")>>

\* get_doc_for_symbol(symbol_id) of tools.py when the docs root holds the
\* one document: the first match of the marker pair, markers included, or
\* one of the two sentinel strings.
RootNotFound == <<Ch("Error: Documentation root not found.")>>
NoDocFound(id) == <<Ch("No documentation found for symbol: "), Ch(id)>>
GetDocForSymbol(rootExists, exists, t, id) ==
    IF ~rootExists THEN RootNotFound
    ELSE IF exists /\ PatternSearch(ReadFileText(t), id)
      THEN LET rt == ReadFileText(t)
               b == FindTok(rt, Begin(id), 1)
           IN SubSeq(rt, b, FindTok(rt, End(id), b + 1))
      ELSE NoDocFound(id)

IsSpace(tok) == tok = NL

\* str.strip()
Strip(t) ==
    LET keep == {p \in 1..Len(t) : ~IsSpace(t[p])}
    IN IF keep = {} THEN <<>>
       ELSE LET lo == CHOOSE p \in keep : \A q \in keep : p <= q
                hi == CHOOSE p \in keep : \A q \in keep : p >= q
            IN SubSeq(t, lo, hi)

\* block_pattern.finditer(text) folded into the dict `blocks`, from position
\* pos on; <<>> stands for "id not in blocks".
RECURSIVE ParseBlocks(_, _, _)
ParseBlocks(t, pos, blocks) ==
    LET starts == {p \in pos..Len(t) :
                     t[p].k = "B" /\ FindTok(t, End(t[p].v), p + 1) # 0}
    IN IF starts = {} THEN blocks
       ELSE LET b == CHOOSE p \in starts : \A q \in starts : p <= q
                e == FindTok(t, End(t[b].v), b + 1)
            IN ParseBlocks(t, e + 1,
                           [blocks EXCEPT ![t[b].v] = SubSeq(t, b, e)])

NoBlocks == [id \in Ids |-> <<>>]

\* The concatenation of the sequences parts[from..].
RECURSIVE JoinFlat(_, _)
JoinFlat(parts, from) ==
    IF from > Len(parts) THEN <<>>
    ELSE parts[from] \o JoinFlat(parts, from + 1)

\* "\n\n".join(new_content_parts[from..])
RECURSIVE JoinParts(_, _)
JoinParts(parts, from) ==
    IF from > Len(parts) THEN <<>>
    ELSE IF from = Len(parts) THEN parts[from]
    ELSE parts[from] \o <<NL, NL>> \o JoinParts(parts, from + 1)

\* The blocks appended to new_content_parts for ids[from..].
RECURSIVE ListedBlocks(_, _, _)
ListedBlocks(ids, blocks, from) ==
    IF from > Len(ids) THEN <<>>
    ELSE (IF blocks[ids[from]] # <<>> THEN <<blocks[ids[from]]>> ELSE <<>>)
         \o ListedBlocks(ids, blocks, from + 1)

\* reorder_sections without the strip() of the header.
ReorderSectionsNoStrip(exists, t, ids) ==
    LET rt == ReadFileText(t)
        first == FindBegin(rt, 1)
    IN
    IF ~exists \/ first = 0 THEN t
    ELSE LET header == SubSeq(rt, 1, first - 1)
             blocks == ParseBlocks(rt, 1, NoBlocks)
             parts == <<header>> \o ListedBlocks(ids, blocks, 1)
             joined == JoinParts(parts, 1)
         IN IF joined # <<>> /\ joined[Len(joined)] = NL THEN joined
            ELSE joined \o <<NL>>

\* The text of the file after reorder_sections.
ReorderSections(exists, t, ids) ==
    LET rt == ReadFileText(t)
        first == FindBegin(rt, 1)
    IN
    IF ~exists \/ first = 0 THEN t
    ELSE LET header == Strip(SubSeq(rt, 1, first - 1))
             blocks == ParseBlocks(rt, 1, NoBlocks)
             parts == <<header>> \o ListedBlocks(ids, blocks, 1)
             joined == JoinParts(parts, 1)
         IN IF joined # <<>> /\ joined[Len(joined)] = NL THEN joined
            ELSE joined \o <<NL>>

\* Whether the text holds a block of id: an open marker of id with a close
\* marker of id after it.
HasBlock(t, id) ==
    \E b \in 1..Len(t) :
        t[b] = Begin(id) /\ \E e \in (b + 1)..Len(t) : t[e] = End(id)

\* The ids for which the search of write_section finds a block in the text.
SectionIds(t) == {id \in Ids : HasBlock(t, id)}

\* The keys of the dict `blocks` that reorder_sections builds from the text:
\* the matches are taken from left to right without overlap, so a block
\* lying inside the span of an earlier match gives no key.
BlockIds(t) == {id \in Ids : ParseBlocks(t, 1, NoBlocks)[id] # <<>>}

\* lastOp records the call made last: its arguments, and in `before` the
\* ids for which a search by id found a block when it was made.
NoOp ==
    [op |-> "none", id |-> "", content |-> <<>>, ids |-> <<>>, before |-> {}]

WriteStep ==
    /\ \E id \in Ids, content \in Contents :
         /\ text' = WriteSection(docExists, text, id, content)
         /\ lastOp' = [op |-> "write", id |-> id, content |-> content,
                       ids |-> <<>>, before |-> SectionIds(text)]
    /\ docExists' = TRUE
    /\ UNCHANGED notDocVars

ReorderStep ==
    /\ \E ids \in IdLists :
         /\ text' = ReorderSections(docExists, text, ids)
         /\ lastOp' = [op |-> "reorder", id |-> "", content |-> <<>>,
                       ids |-> ids, before |-> SectionIds(text)]
    /\ UNCHANGED <<docExists, notDocVars>>

NextDoc == WriteStep \/ ReorderStep


(***************************************************************************)
(*                  run_indexing (util.py) and QdrantStore                 *)
(***************************************************************************)

\* Number of distinct content hashes tried.
NumHashes == 2

\* The symbol ids the changed file can define, in source order.
SymIds == <<"A", "B", "C">>
SymIdSet == {SymIds[n] : n \in 1..Len(SymIds)}

\* The changed file, and a file the change source did not report.
ChangedFile == "core.py"
OtherFile == "utils.py"
OtherId == "G"

\* str(uuid.UUID(hex=hashlib.md5(sid.encode("utf-8")).hexdigest())): a
\* deterministic, injective digest of the symbol id.
PointId(sid) == <<"uuid", "md5", sid>>

\* The payload run_indexing builds for a symbol.
Metadata(sym) ==
    [symbol_id |-> sym.symbol_id, file |-> sym.file, kind |-> sym.kind,
     hash |-> sym.hash]

\* Point with an id that also depends on the content hash.
PointHashId(meta) ==
    [id |-> <<"uuid", "md5", meta.symbol_id, meta.hash>>, payload |-> meta]

\* The PointStruct add builds for one payload.
Point(meta) == [id |-> PointId(meta.symbol_id), payload |-> meta]

\* client.upsert of one point: a point with the same id is overwritten.
UpsertPoint(st, pt) == {p \in st : p.id # pt.id} \cup {pt}

\* QdrantStore.add(vectors, metadatas) for metadatas[from..].
RECURSIVE StoreAdd(_, _, _)
StoreAdd(st, metadatas, from) ==
    IF from > Len(metadatas) THEN st
    ELSE StoreAdd(UpsertPoint(st, Point(metadatas[from])), metadatas, from + 1)

\* The methods class QdrantStore defines.
QdrantStoreMethods ==
    {"__init__", "__enter__", "__exit__", "close", "add", "search"}

\* existing_hashes as read from the points; "absent" is no entry.  With two
\* points of one symbol_id the dict keeps one of them; the store holds at
\* most one point per symbol_id here, as PointId is a function of it.
ExistingHash(points, sid) ==
    IF \E p \in points : p.payload.symbol_id = sid
      THEN (CHOOSE p \in points : p.payload.symbol_id = sid).payload.hash
      ELSE 0

\* existing_symbols_by_file.get(file, set())
ExistingIdsOfFile(points, file) ==
    {p.payload.symbol_id : p \in {q \in points : q.payload.file = file}}

\* current_symbols_by_file.get(file, set())
CurrentIdsOfFile(syms, file) ==
    {syms[n].symbol_id : n \in {m \in 1..Len(syms) : syms[m].file = file}}

\* deleted_ids for one changed file: in the store but not in the source.
DeletedIds(points, syms, file) ==
    ExistingIdsOfFile(points, file) \ CurrentIdsOfFile(syms, file)

\* The test of the diff loop: the symbol is skipped as unchanged.
IsUnchanged(points, sym) ==
    ExistingHash(points, sym.symbol_id) # 0
    /\ ExistingHash(points, sym.symbol_id) = sym.hash

IsIndexable(sym) == sym.kind \in {"class", "function", "method"}

\* changed_symbols (= to_embed): the diff loop over syms[from..], in order.
RECURSIVE ChangedSymbolsFrom(_, _, _)
ChangedSymbolsFrom(points, syms, from) ==
    IF from > Len(syms) THEN <<>>
    ELSE (IF ~IsUnchanged(points, syms[from]) /\ IsIndexable(syms[from])
            THEN <<syms[from]>> ELSE <<>>)
         \o ChangedSymbolsFrom(points, syms, from + 1)

ChangedSymbols(points, syms) == ChangedSymbolsFrom(points, syms, 1)

\* The symbols the diff loop counts in skipped_count.
SkippedSymbols(points, syms) ==
    {syms[n] : n \in {m \in 1..Len(syms) : IsUnchanged(points, syms[m])}}

\* metadatas: one payload per symbol to embed, in order.
Metadatas(syms) == [n \in 1..Len(syms) |-> Metadata(syms[n])]

SeqToSet(sq) == {sq[n] : n \in 1..Len(sq)}

\* A symbol as parse_symbols_file returns it.
Symbol(sid, h) ==
    [symbol_id |-> sid, kind |-> "function", file |-> ChangedFile, hash |-> h]

\* The extractor's list for a choice of hash per id (0: not defined).
RECURSIVE SymbolList(_, _)
SymbolList(choice, from) ==
    IF from > Len(SymIds) THEN <<>>
    ELSE (IF choice[SymIds[from]] # 0
            THEN <<Symbol(SymIds[from], choice[SymIds[from]])>> ELSE <<>>)
         \o SymbolList(choice, from + 1)

\* A symbol of kind "module", which the Symbol type allows and the diff
\* loop passes over: none when h is 0.
ModuleId == "M"
ModuleSymbols(h) ==
    IF h = 0 THEN <<>>
    ELSE <<[symbol_id |-> ModuleId, kind |-> "module", file |-> ChangedFile,
            hash |-> h]>>

\* A second definition of the qualified name of DupId further down the
\* file (an overload, a property and its setter, a redefinition): the
\* extractor emits one symbol per def, so the id comes twice; none when h
\* is 0.
DupId == "A"
SecondDef(h) == IF h = 0 THEN <<>> ELSE <<Symbol(DupId, h)>>

\* The points a former pass over OtherFile left in the collection.
OtherPoints ==
    {Point([symbol_id |-> OtherId, file |-> OtherFile, kind |-> "function",
            hash |-> 1])}

\* ReadPoints that uses the stored points even when the read failed.
ReadPointsIgnoringFailure(st, scrollOk) == st

\* The points the try block yields: those of the collection, or none when
\* store.client.scroll raises (the handler only prints).
ReadPoints(st, scrollOk) == IF scrollOk THEN st ELSE {}

\* One pass of run_indexing over changed_files = [ChangedFile].  scrollOk
\* is whether store.client.scroll returns (it raises otherwise).
RunIndexing(scrollOk) ==
    LET points == ReadPoints(store, scrollOk)
        deleted == DeletedIds(points, current, ChangedFile)
        changed == ChangedSymbols(points, current)
    IN
    /\ idxPc = "idle"
    /\ readOk' = scrollOk
    /\ deleted_ids' = deleted
    /\ IF deleted # {} /\ "delete" \notin QdrantStoreMethods
         THEN \* store.delete raises AttributeError: the pass ends here
              /\ idxPc' = "raised"
              /\ UNCHANGED <<store, changed_ids, skipped_ids>>
         ELSE /\ idxPc' = "returned"
              /\ changed_ids' = {s.symbol_id : s \in SeqToSet(changed)}
              /\ skipped_ids' =
                    {s.symbol_id : s \in SkippedSymbols(points, current)}
              /\ store' =
                    StoreAdd({p \in store : p.id \notin {PointId(sid) : sid \in deleted}},
                             Metadatas(changed), 1)
    /\ UNCHANGED <<current, notIdxVars>>

IndexingPass == \E scrollOk \in BOOLEAN : RunIndexing(scrollOk)

\* The source file is edited (or left as it is) and the next pass starts.
EditSource ==
    /\ idxPc # "idle"
    /\ \E choice \in [SymIdSet -> 0..NumHashes], hm \in 0..1,
          dup \in 0..NumHashes :
         /\ dup # 0 => choice[DupId] \notin {0, dup}
         /\ current' = ModuleSymbols(hm) \o SymbolList(choice, 1)
                          \o SecondDef(dup)
    /\ idxPc' = "idle"
    /\ changed_ids' = {}
    /\ skipped_ids' = {}
    /\ deleted_ids' = {}
    /\ UNCHANGED <<store, readOk, notIdxVars>>

NextIndex == IndexingPass \/ EditSource

(***************************************************************************)
(*                     QdrantStore.add called directly                     *)
(***************************************************************************)

\* Longest metadatas list of one add call.
MaxAddLen == 2

\* The symbol ids the add calls are made for.
AddIds == {"A", "B"}

\* The payloads add can be given, and the lists of them.
AddMetadatas ==
    [symbol_id : AddIds, file : {ChangedFile}, kind : {"function"},
     hash : 1..NumHashes]
AddLists == UNION {[1..n -> AddMetadatas] : n \in 0..MaxAddLen}

NoAdd == [op |-> "none", metadatas |-> <<>>, before |-> {}]

\* store.add(vectors, metadatas) with len(vectors) = len(metadatas).
AddCall ==
    /\ \E metadatas \in AddLists :
         /\ store' = StoreAdd(store, metadatas, 1)
         /\ lastAdd' = [op |-> "add", metadatas |-> metadatas,
                        before |-> store]
    /\ UNCHANGED <<current, idxPc, readOk, changed_ids, skipped_ids,
                   deleted_ids, loopVars, docVars, toolVars, pipeVars,
                   hashVars, ctxVars>>

NextStore == AddCall

(***************************************************************************)
(*   process_pipeline (agentic_rag_pipeline.py) and evaluate_rag           *)
(* A run works on the symbols `current` that index_repo_ast returns for    *)
(* the changed files, on the collection `store` and on the documents.      *)
(* The collection and the documents outlive the run: the next run, of      *)
(* either program, finds them as the runs before left them.                *)
(***************************************************************************)

\* The change source: get_git_diff_files() returns the one path it is
\* given in its first lines, whatever has changed (the git diff below the
\* return is never reached).
FileA == "sample_project/src/calculator/core.py"
PipeFiles == {FileA}
ChangedFiles == <<FileA>>

\* The same tree as evaluate_rag names its files, from the root
\* "../sample_project" it is started on: the documented file and a file
\* beside it (index_repo_ast without changed_files takes every file).
EvalFileA == "../sample_project/src/calculator/core.py"
EvalFileU == "../sample_project/src/calculator/utils.py"

\* md_file_name: the path after "src", joined with "_", ".py" -> ".md".
MdName(file) == "calculator_core.md"
MdNames == {MdName(f) : f \in PipeFiles}

\* The test `"core.py" not in str(file_path)` lets the file through.
IsDocumented(file) == file \in {FileA, EvalFileA}

\* A symbol with its start line.
PipeSymbol(sid, file, h, start) ==
    [symbol_id |-> sid, kind |-> "function", file |-> file, hash |-> h,
     start |-> start]

\* The extractor's list for the documented file, under the path file: it
\* defines a and b (b first when swapped); a hash of 0 means the symbol is
\* not defined.  The symbols of a file come in the order of their
\* definitions.
SourceSymbols(file, ha, hb, swapped) ==
    LET sa == IF ha = 0 THEN <<>>
              ELSE <<PipeSymbol("a", file, ha, IF swapped THEN 2 ELSE 1)>>
        sb == IF hb = 0 THEN <<>>
              ELSE <<PipeSymbol("b", file, hb, IF swapped THEN 1 ELSE 2)>>
    IN IF swapped THEN sb \o sa ELSE sa \o sb

\* The extractor's list for the file beside it, which is not edited: it
\* defines c.
UtilSymbols == <<PipeSymbol("c", EvalFileU, 1, 1)>>

\* all_symbols_by_file[file] / changed_symbols_by_file[file]
SymbolsOfFile(syms, file) == SelectSeq(syms, LAMBDA sym : sym.file = file)

\* The keys of changed_symbols_by_file, in insertion order.
RECURSIVE DistinctFiles(_, _)
DistinctFiles(syms, seen) ==
    IF syms = <<>> THEN <<>>
    ELSE IF Head(syms).file \in seen THEN DistinctFiles(Tail(syms), seen)
    ELSE <<Head(syms).file>>
           \o DistinctFiles(Tail(syms), seen \cup {Head(syms).file})

\* list.sort(key=lambda s: s.start): stable, ascending.
RECURSIVE SortByStart(_)
SortByStart(syms) ==
    IF syms = <<>> THEN <<>>
    ELSE LET last == syms[Len(syms)]
             sorted == SortByStart(SubSeq(syms, 1, Len(syms) - 1))
             k == Cardinality({n \in 1..Len(sorted) :
                                 sorted[n].start <= last.start})
         IN SubSeq(sorted, 1, k) \o <<last>>
              \o SubSeq(sorted, k + 1, Len(sorted))

\* [s.symbol_id for s in syms]
IdsOf(syms) == [n \in 1..Len(syms) |-> syms[n].symbol_id]

\* The text the docs chain produces for a symbol, and for an update.
PipeContent == <<Ch("y")>>
UpdateContent == <<Ch("x")>>

\* writer.write_section and writer.reorder_sections on the document md.
WriteDoc(ds, md, id, content) ==
    [ds EXCEPT ![md] =
        [exists |-> TRUE,
         text |-> WriteSection(ds[md].exists, ds[md].text, id, content)]]
ReorderDoc(ds, md, ids) ==
    [ds EXCEPT ![md] =
        [exists |-> ds[md].exists,
         text |-> ReorderSections(ds[md].exists, ds[md].text, ids)]]

\* One impact instruction, for target: the target's file is looked up in
\* all_symbols; its section is written and its document reordered by
\* all_symbols_by_file[target_file].  A target all_symbols does not hold
\* is passed over with a warning.
ApplyImpact(ds, target) ==
    IF \E n \in 1..Len(current) : current[n].symbol_id = target
      THEN LET tf == current[CHOOSE n \in 1..Len(current) :
                               /\ current[n].symbol_id = target
                               /\ \A m \in 1..(n - 1) :
                                     current[m].symbol_id # target].file
           IN ReorderDoc(WriteDoc(ds, MdName(tf), target, UpdateContent),
                         MdName(tf), IdsOf(SymbolsOfFile(current, tf)))
      ELSE ds

\* for instr in impact_instructions: the instructions one after the other.
RECURSIVE ApplyImpacts(_, _)
ApplyImpacts(ds, targets) ==
    IF targets = <<>> THEN ds
    ELSE ApplyImpacts(ApplyImpact(ds, Head(targets)), Tail(targets))

\* The lists of instructions the impact phase can return, by the symbols
\* they name: at most MaxImpacts instructions.
MaxImpacts == 2
ImpactTargets == {"a", "b", "unknown"}
ImpactLists == UNION {[1..n -> ImpactTargets] : n \in 0..MaxImpacts}

\* What handling one symbol can do:
\*   "read_fail"    reading the source file raises (caught: continue)
\*   "fail"         retrieval, research, generation or write_section raises
\*   "impact_fail"  the section is written, then the impact phase raises:
\*                  run_impact_phase itself (no target handled), or the
\*                  docs chain or the writer after the targets were handled
\*   "ok"           all phases return; targets are the symbols the impact
\*                  instructions name, in order
SymbolOutcomes ==
    [kind : {"read_fail", "fail"}, targets : {<<>>}]
      \cup [kind : {"impact_fail", "ok"}, targets : ImpactLists]

\* run_indexing of agentic_rag_pipeline.py and the grouping by file: the
\* diff loop, the upsert of the changed symbols; no deletion is looked for.
\* With no changed file run_indexing returns None, and the assignment
\* "all_symbols, changed_symbols = run_indexing(...)" raises TypeError.
IndexStep ==
    /\ pipePc = "index"
    /\ IF changed_files = <<>>
         THEN /\ pipePc' = "raised"
              /\ UNCHANGED <<readOk, changed_symbols, store, files>>
         ELSE /\ \E scrollOk \in BOOLEAN :
                   LET changed == ChangedSymbols(ReadPoints(store, scrollOk),
                                                 current)
                   IN /\ readOk' = scrollOk
                      /\ changed_symbols' = changed
                      /\ store' = StoreAdd(store, Metadatas(changed), 1)
                      /\ files' = DistinctFiles(changed, {})
              /\ pipePc' = "files"
    /\ UNCHANGED <<changed_files, queue, docs, processed, failed, current,
                   idxPc,
                   changed_ids, skipped_ids, deleted_ids, loopVars, docVars,
                   storeVars, toolVars,
                   hashVars, ctxVars>>

\* The head of the loop over changed_symbols_by_file.items(): a file
\* without "core.py" in its path is passed over, the changed symbols of
\* another are sorted by start line.
FileStart ==
    /\ pipePc = "files"
    /\ files # <<>>
    /\ IF IsDocumented(Head(files))
         THEN /\ queue' = SortByStart(SymbolsOfFile(changed_symbols,
                                                    Head(files)))
              /\ pipePc' = "symbols"
              /\ files' = files
         ELSE /\ files' = Tail(files)
              /\ UNCHANGED <<queue, pipePc>>
    /\ UNCHANGED <<changed_files, changed_symbols,
                   docs, processed, failed, loopVars,
                   docVars, idxVars, storeVars, toolVars,
                   hashVars, ctxVars>>

\* One iteration of the loop over the changed symbols of the file.
SymbolStep ==
    /\ pipePc = "symbols"
    /\ queue # <<>>
    /\ \E out \in SymbolOutcomes :
         LET sym == Head(queue)
             written == WriteDoc(docs, MdName(Head(files)), sym.symbol_id,
                                 PipeContent)
         IN
         CASE out.kind = "read_fail" ->
                /\ queue' = Tail(queue)
                /\ failed' = failed \cup {sym.symbol_id}
                /\ UNCHANGED <<pipePc, docs, processed>>
           [] out.kind = "fail" ->
                /\ pipePc' = "raised"
                /\ failed' = failed \cup {sym.symbol_id}
                /\ UNCHANGED <<queue, docs, processed>>
           [] out.kind = "impact_fail" ->
                /\ pipePc' = "raised"
                /\ docs' = ApplyImpacts(written, out.targets)
                /\ processed' = Append(processed, sym.symbol_id)
                /\ failed' = failed \cup {sym.symbol_id}
                /\ UNCHANGED queue
           [] out.kind = "ok" ->
                /\ queue' = Tail(queue)
                /\ docs' = ApplyImpacts(written, out.targets)
                /\ processed' = Append(processed, sym.symbol_id)
                /\ UNCHANGED <<pipePc, failed>>
    /\ UNCHANGED <<changed_files, changed_symbols,
                   files, loopVars, docVars, idxVars,
                   storeVars, toolVars,
                   hashVars, ctxVars>>

\* After the last changed symbol of the file: all symbols of the file are
\* sorted by start line and the document is reordered by them.
FileEnd ==
    /\ pipePc = "symbols"
    /\ queue = <<>>
    /\ docs' = ReorderDoc(docs, MdName(Head(files)),
                          IdsOf(SortByStart(SymbolsOfFile(current,
                                                          Head(files)))))
    /\ files' = Tail(files)
    /\ pipePc' = "files"
    /\ UNCHANGED <<changed_files, changed_symbols,
                   queue, processed, failed, loopVars,
                   docVars, idxVars, storeVars, toolVars,
                   hashVars, ctxVars>>

\* After the last file: store.close() and return.
Close ==
    /\ pipePc = "files"
    /\ files = <<>>
    /\ pipePc' = "done"
    /\ UNCHANGED <<changed_files, changed_symbols,
                   files, queue, docs, processed, failed,
                   loopVars, docVars, idxVars, storeVars, toolVars,
                   hashVars, ctxVars>>

\* What handling one symbol can do in evaluate_rag: reading the source
\* file raises (caught: continue), retrieval, generation or write_section
\* raises, or the section is written.
EvalOutcomes == {"read_fail", "fail", "ok"}

\* The loop of evaluate_rag over the symbols of a file: a section for each
\* in turn, up to the first one whose handling raises.
RECURSIVE EvalWrites(_, _, _)
EvalWrites(ds, syms, outs) ==
    IF syms = <<>> THEN ds
    ELSE CASE Head(outs) = "read_fail" ->
                EvalWrites(ds, Tail(syms), Tail(outs))
           [] Head(outs) = "fail" -> ds
           [] Head(outs) = "ok" ->
                EvalWrites(WriteDoc(ds, MdName(Head(syms).file),
                                    Head(syms).symbol_id, PipeContent),
                           Tail(syms), Tail(outs))

\* The source is edited and process_pipeline is started (that of
\* agentic_rag_pipeline.py, or that of rag_pipeline_w_git_diff.py, which
\* has no impact phase): the collection and the documents are as the runs
\* before left them.
StartRun ==
    /\ pipePc \in {"idle", "done", "raised"}
    /\ \E ha \in 0..NumHashes, hb \in 0..NumHashes, swapped \in BOOLEAN :
         current' = SourceSymbols(FileA, ha, hb, swapped)
    /\ changed_files' = ChangedFiles
    /\ pipePc' = "index"
    /\ changed_symbols' = <<>>
    /\ files' = <<>>
    /\ queue' = <<>>
    /\ processed' = <<>>
    /\ failed' = {}
    /\ UNCHANGED <<docs, store, readOk, idxPc,
                   changed_ids, skipped_ids, deleted_ids, loopVars, docVars,
                   storeVars, toolVars, hashVars, ctxVars>>

\* evaluate_rag("../sample_project", llm) of src/evaluate_rag.py, from its
\* first line to its last: its run_indexing over every file of the tree
\* (no change source), then a section for every symbol of the documented
\* file in start-line order; the document is not reordered.
EvaluateRag ==
    /\ pipePc \in {"idle", "done", "raised"}
    /\ \E ha \in 0..NumHashes, hb \in 0..NumHashes, swapped \in BOOLEAN,
          scrollOk \in BOOLEAN, outs \in [1..2 -> EvalOutcomes] :
         \* The files come in the order of rglob; the order of the points
         \* in one upsert makes no difference to the collection.
         LET core == SourceSymbols(EvalFileA, ha, hb, swapped)
             all_symbols == core \o UtilSymbols
             to_embed == ChangedSymbols(ReadPoints(store, scrollOk),
                                        all_symbols)
             file_symbols == SortByStart(SymbolsOfFile(all_symbols,
                                                       EvalFileA))
         IN /\ store' = StoreAdd(store, Metadatas(to_embed), 1)
            /\ docs' = EvalWrites(docs, file_symbols, outs)
            /\ readOk' = scrollOk
    /\ pipePc' = "idle"
    /\ current' = <<>>
    /\ changed_files' = <<>>
    /\ changed_symbols' = <<>>
    /\ files' = <<>>
    /\ queue' = <<>>
    /\ processed' = <<>>
    /\ failed' = {}
    /\ UNCHANGED <<idxPc, changed_ids, skipped_ids, deleted_ids, loopVars,
                   docVars, storeVars, toolVars, hashVars, ctxVars>>

NextPipe ==
    \/ StartRun \/ EvaluateRag
    \/ IndexStep \/ FileStart \/ SymbolStep \/ FileEnd \/ Close

NoDocs == [md \in MdNames |-> [exists |-> FALSE, text |-> <<>>]]

(***************************************************************************)
(*                  parse_symbols_file (symbols_ast.py)                    *)
(* The source file is a sequence of lines as the parser counts them; a     *)
(* line is its text and the terminator that ends it.  Characters:          *)
(*   "x", "y"   ordinary characters                                        *)
(*   "ff"       form feed: white space to the parser, a line boundary to   *)
(*              str.splitlines                                             *)
(*   "nl"       line feed           "cr"   carriage return                 *)
(* Terminators: "nl", "cr", "crnl".                                        *)
(***************************************************************************)

\* Largest number of lines of the source file.
MaxLines == 3

LineTexts == {<<"x">>, <<"y">>, <<"x", "ff", "y">>}
Terminators == {"nl", "cr", "crnl"}
SourceLines == [txt : LineTexts, term : Terminators]
SourceFiles == UNION {[1..n -> SourceLines] : n \in 1..MaxLines}

NoSpan == [start |-> 0, end |-> 0]
NoHash == <<"none">>

\* The characters of a terminator as they stand in the file.
TermChars(term) ==
    CASE term = "nl" -> <<"nl">>
      [] term = "cr" -> <<"cr">>
      [] term = "crnl" -> <<"cr", "nl">>

\* path.read_text(): the characters of the file, every terminator read as
\* a line feed (universal newlines).
RECURSIVE ReadText(_)
ReadText(file) ==
    IF file = <<>> THEN <<>>
    ELSE Head(file).txt \o <<"nl">> \o ReadText(Tail(file))

\* src.splitlines(): the pieces between the line boundaries, the form feed
\* being one of them; no empty piece after the last boundary.
RECURSIVE SplitFrom(_, _)
SplitFrom(chars, piece) ==
    IF chars = <<>> THEN (IF piece = <<>> THEN <<>> ELSE <<piece>>)
    ELSE IF Head(chars) \in {"nl", "ff"}
           THEN <<piece>> \o SplitFrom(Tail(chars), <<>>)
           ELSE SplitFrom(Tail(chars), Append(piece, Head(chars)))
SplitLines(chars) == SplitFrom(chars, <<>>)

\* "\n".join(lines[lo - 1:hi]) with Python's clipping of the slice.
RECURSIVE JoinLines(_, _, _)
JoinLines(lines, lo, hi) ==
    IF lo > hi \/ lo > Len(lines) THEN <<>>
    ELSE IF lo = hi \/ lo = Len(lines) THEN lines[lo]
    ELSE lines[lo] \o <<"nl">> \o JoinLines(lines, lo + 1, hi)

\* _sha: SHA-256 of the text, taken to be free of collisions.
Sha(s) == <<"sha256", s>>

\* content_hash of the symbol whose node has lineno sp.start and
\* end_lineno sp.end.
ContentHash(file, sp) ==
    Sha(JoinLines(SplitLines(ReadText(file)), sp.start, sp.end))

\* The file is edited in one line, text or terminator, the symbol keeping
\* its lines, and the symbols are extracted again.
EditAndParse ==
    /\ \E n \in 1..Len(srcFile), line \in SourceLines :
         /\ line # srcFile[n]
         /\ line.txt = srcFile[n].txt \/ line.term = srcFile[n].term
         /\ srcFile' = [srcFile EXCEPT ![n] = line]
    /\ content_hash' = ContentHash(srcFile', span)
    /\ UNCHANGED <<span, loopVars, docVars, idxVars, storeVars, toolVars,
                   pipeVars, ctxVars>>

NextHash == EditAndParse

(***************************************************************************)
(* The retrieval context: process_pipeline (agentic_rag_pipeline.py) and   *)
(* generate_with_rag (rag_pipeline_w_git_diff.py) build it from the        *)
(* payloads store.search returns.  A string is the sequence of the pieces  *)
(* it is put together from; "\n" is a piece of its own.                    *)
(***************************************************************************)
MaxResults == 3

\* The qualified names of the indexed symbols, with the kind and the file
\* the payload of each carries.
QualNames == {"pkg.core.f", "pkg.core.g", "pkg.core.C", "pkg.core.C.m"}
KindOfName(q) ==
    CASE q = "pkg.core.C" -> "class"
      [] q = "pkg.core.C.m" -> "method"
      [] OTHER -> "function"
Payload(q) == [qualname |-> q, kind |-> KindOfName(q),
               file |-> "pkg/core.py"]

\* store.search(query_vec, k): at most k payloads, no point twice.
SearchResults ==
    UNION {{[n \in 1..len |-> Payload(f[n])] :
              f \in {g \in [1..len -> QualNames] :
                       \A a, b \in 1..len : a # b => g[a] # g[b]}} :
           len \in 0..MaxResults}

\* The value of context_str before it is assigned.
Unbuilt == <<>>
Sentinel == <<"No related context found.">>

\* f"- {res['qualname']} ({res['kind']}) from {res['file']}"
RenderLine(res) ==
    <<"- ", res.qualname, " (", res.kind, ") from ", res.file>>

\* The comprehension without its condition.
RECURSIVE ContextLinesNoExclusion(_, _)
ContextLinesNoExclusion(rs, name) ==
    IF rs = <<>> THEN <<>>
    ELSE <<RenderLine(Head(rs))>> \o ContextLinesNoExclusion(Tail(rs), name)

\* [f"- ..." for res in results if res['qualname'] != sym.qualname]
RECURSIVE ContextLines(_, _)
ContextLines(rs, name) ==
    IF rs = <<>> THEN <<>>
    ELSE (IF Head(rs).qualname # name THEN <<RenderLine(Head(rs))>>
          ELSE <<>>)
         \o ContextLines(Tail(rs), name)

\* "\n".join(lines)
RECURSIVE JoinContextLines(_)
JoinContextLines(lines) ==
    IF lines = <<>> THEN <<>>
    ELSE IF Len(lines) = 1 THEN Head(lines)
    ELSE Head(lines) \o <<"\n">> \o JoinContextLines(Tail(lines))

\* "\n".join(context_lines) if context_lines else "No related context found."
BuildContext ==
    /\ context_str = Unbuilt
    /\ LET context_lines == ContextLines(results, ctxQuery)
       IN context_str' = IF context_lines # <<>>
                           THEN JoinContextLines(context_lines) ELSE Sentinel
    /\ UNCHANGED <<ctxQuery, results, loopVars, docVars, idxVars, storeVars,
                   toolVars, pipeVars, hashVars>>

NextContext == BuildContext

(***************************************************************************)
(*                            Specifications                               *)
(***************************************************************************)

\* run_agent_loop is entered; the writer and the indexer are not in use.
InitLoop ==
    /\ max_steps \in 0..MaxStepsBound
    /\ i = 0
    /\ pc = "running"
    /\ history = <<>>
    /\ log = <<>>
    /\ chainBound = FALSE
    /\ invoked = Unbound
    /\ response = Unbound
    /\ calls = 0
    /\ toolCalls = 0
    /\ tool_out = <<>>
    /\ result = NoResult
    /\ docExists = FALSE /\ text = <<>> /\ lastOp = NoOp
    /\ store = {} /\ current = <<>> /\ idxPc = "off" /\ readOk = TRUE
    /\ changed_ids = {} /\ skipped_ids = {} /\ deleted_ids = {}
    /\ lastAdd = NoAdd
    /\ lastCall = NoCall /\ observations = <<>> /\ toolRaised = FALSE
    /\ pipePc = "off" /\ changed_files = <<>>
    /\ changed_symbols = <<>> /\ files = <<>>
    /\ queue = <<>> /\ docs = NoDocs /\ processed = <<>> /\ failed = {}
    /\ srcFile = <<>> /\ span = NoSpan /\ content_hash = NoHash
    /\ ctxQuery = "" /\ results = <<>> /\ context_str = Unbuilt

\* A MarkdownWriter and the file it is pointed at: missing, or hand-written.
InitDoc ==
    /\ docExists \in BOOLEAN
    /\ text \in (IF docExists THEN InitTexts ELSE {<<>>})
    /\ lastOp = NoOp
    /\ max_steps = 0 /\ i = 0 /\ pc = "off" /\ history = <<>> /\ log = <<>>
    /\ chainBound = FALSE /\ invoked = Unbound /\ response = Unbound
    /\ calls = 0
    /\ toolCalls = 0 /\ tool_out = <<>> /\ result = NoResult
    /\ store = {} /\ current = <<>> /\ idxPc = "off" /\ readOk = TRUE
    /\ changed_ids = {} /\ skipped_ids = {} /\ deleted_ids = {}
    /\ lastAdd = NoAdd
    /\ lastCall = NoCall /\ observations = <<>> /\ toolRaised = FALSE
    /\ pipePc = "off" /\ changed_files = <<>>
    /\ changed_symbols = <<>> /\ files = <<>>
    /\ queue = <<>> /\ docs = NoDocs /\ processed = <<>> /\ failed = {}
    /\ srcFile = <<>> /\ span = NoSpan /\ content_hash = NoHash
    /\ ctxQuery = "" /\ results = <<>> /\ context_str = Unbuilt

\* A collection that holds no point of the changed file yet, and a source
\* file in any of its versions.
InitIndex ==
    /\ store = OtherPoints
    /\ \E choice \in [SymIdSet -> 0..NumHashes], hm \in 0..1,
          dup \in 0..NumHashes :
         /\ dup # 0 => choice[DupId] \notin {0, dup}
         /\ current = ModuleSymbols(hm) \o SymbolList(choice, 1)
                          \o SecondDef(dup)
    /\ idxPc = "idle"
    /\ readOk = TRUE
    /\ changed_ids = {}
    /\ skipped_ids = {}
    /\ deleted_ids = {}
    /\ max_steps = 0 /\ i = 0 /\ pc = "off" /\ history = <<>> /\ log = <<>>
    /\ chainBound = FALSE /\ invoked = Unbound /\ response = Unbound
    /\ calls = 0
    /\ toolCalls = 0 /\ tool_out = <<>> /\ result = NoResult
    /\ docExists = FALSE /\ text = <<>> /\ lastOp = NoOp
    /\ lastAdd = NoAdd
    /\ lastCall = NoCall /\ observations = <<>> /\ toolRaised = FALSE
    /\ pipePc = "off" /\ changed_files = <<>>
    /\ changed_symbols = <<>> /\ files = <<>>
    /\ queue = <<>> /\ docs = NoDocs /\ processed = <<>> /\ failed = {}
    /\ srcFile = <<>> /\ span = NoSpan /\ content_hash = NoHash
    /\ ctxQuery = "" /\ results = <<>> /\ context_str = Unbuilt

\* A freshly created, empty collection.
InitStore ==
    /\ store = {}
    /\ lastAdd = NoAdd
    /\ lastCall = NoCall /\ observations = <<>> /\ toolRaised = FALSE
    /\ pipePc = "off" /\ changed_files = <<>>
    /\ changed_symbols = <<>> /\ files = <<>>
    /\ queue = <<>> /\ docs = NoDocs /\ processed = <<>> /\ failed = {}
    /\ current = <<>> /\ idxPc = "off" /\ readOk = TRUE
    /\ changed_ids = {} /\ skipped_ids = {} /\ deleted_ids = {}
    /\ max_steps = 0 /\ i = 0 /\ pc = "off" /\ history = <<>> /\ log = <<>>
    /\ chainBound = FALSE /\ invoked = Unbound /\ response = Unbound
    /\ calls = 0
    /\ toolCalls = 0 /\ tool_out = <<>> /\ result = NoResult
    /\ docExists = FALSE /\ text = <<>> /\ lastOp = NoOp
    /\ srcFile = <<>> /\ span = NoSpan /\ content_hash = NoHash
    /\ ctxQuery = "" /\ results = <<>> /\ context_str = Unbuilt

\* No tool has been called yet.
InitTool ==
    /\ lastCall = NoCall
    /\ observations = <<>>
    /\ toolRaised = FALSE
    /\ max_steps = 0 /\ i = 0 /\ pc = "off" /\ history = <<>> /\ log = <<>>
    /\ chainBound = FALSE /\ invoked = Unbound /\ response = Unbound
    /\ calls = 0
    /\ toolCalls = 0 /\ tool_out = <<>> /\ result = NoResult
    /\ docExists = FALSE /\ text = <<>> /\ lastOp = NoOp
    /\ store = {} /\ current = <<>> /\ idxPc = "off" /\ readOk = TRUE
    /\ changed_ids = {} /\ skipped_ids = {} /\ deleted_ids = {}
    /\ lastAdd = NoAdd
    /\ pipePc = "off" /\ changed_files = <<>>
    /\ changed_symbols = <<>> /\ files = <<>>
    /\ queue = <<>> /\ docs = NoDocs /\ processed = <<>> /\ failed = {}
    /\ srcFile = <<>> /\ span = NoSpan /\ content_hash = NoHash
    /\ ctxQuery = "" /\ results = <<>> /\ context_str = Unbuilt

\* A fresh working tree: the collection is empty, no document has been
\* written, no program is running.
InitPipe ==
    /\ store = {}
    /\ docs = NoDocs
    /\ current = <<>>
    /\ changed_files = <<>>
    /\ pipePc = "idle"
    /\ changed_symbols = <<>> /\ files = <<>> /\ queue = <<>>
    /\ processed = <<>> /\ failed = {}
    /\ idxPc = "off" /\ readOk = TRUE
    /\ changed_ids = {} /\ skipped_ids = {} /\ deleted_ids = {}
    /\ max_steps = 0 /\ i = 0 /\ pc = "off" /\ history = <<>> /\ log = <<>>
    /\ chainBound = FALSE /\ invoked = Unbound /\ response = Unbound
    /\ calls = 0
    /\ toolCalls = 0 /\ tool_out = <<>> /\ result = NoResult
    /\ docExists = FALSE /\ text = <<>> /\ lastOp = NoOp
    /\ lastAdd = NoAdd
    /\ lastCall = NoCall /\ observations = <<>> /\ toolRaised = FALSE
    /\ srcFile = <<>> /\ span = NoSpan /\ content_hash = NoHash
    /\ ctxQuery = "" /\ results = <<>> /\ context_str = Unbuilt

\* A source file with one symbol on some of its lines has been parsed.
InitHash ==
    /\ srcFile \in SourceFiles
    /\ span \in {sp \in [start : 1..MaxLines, end : 1..MaxLines] :
                   sp.start <= sp.end /\ sp.end <= Len(srcFile)}
    /\ content_hash = ContentHash(srcFile, span)
    /\ max_steps = 0 /\ i = 0 /\ pc = "off" /\ history = <<>> /\ log = <<>>
    /\ chainBound = FALSE /\ invoked = Unbound /\ response = Unbound
    /\ calls = 0
    /\ toolCalls = 0 /\ tool_out = <<>> /\ result = NoResult
    /\ docExists = FALSE /\ text = <<>> /\ lastOp = NoOp
    /\ store = {} /\ current = <<>> /\ idxPc = "off" /\ readOk = TRUE
    /\ changed_ids = {} /\ skipped_ids = {} /\ deleted_ids = {}
    /\ lastAdd = NoAdd
    /\ lastCall = NoCall /\ observations = <<>> /\ toolRaised = FALSE
    /\ pipePc = "off" /\ changed_files = <<>>
    /\ changed_symbols = <<>> /\ files = <<>>
    /\ queue = <<>> /\ docs = NoDocs /\ processed = <<>> /\ failed = {}
    /\ ctxQuery = "" /\ results = <<>> /\ context_str = Unbuilt

\* A symbol's code has been read and store.search has returned: at most
\* MaxResults payloads, of distinct symbols (one point per symbol id).
InitContext ==
    /\ ctxQuery \in QualNames
    /\ results \in SearchResults
    /\ context_str = Unbuilt
    /\ max_steps = 0 /\ i = 0 /\ pc = "off" /\ history = <<>> /\ log = <<>>
    /\ chainBound = FALSE /\ invoked = Unbound /\ response = Unbound
    /\ calls = 0
    /\ toolCalls = 0 /\ tool_out = <<>> /\ result = NoResult
    /\ docExists = FALSE /\ text = <<>> /\ lastOp = NoOp
    /\ store = {} /\ current = <<>> /\ idxPc = "off" /\ readOk = TRUE
    /\ changed_ids = {} /\ skipped_ids = {} /\ deleted_ids = {}
    /\ lastAdd = NoAdd
    /\ lastCall = NoCall /\ observations = <<>> /\ toolRaised = FALSE
    /\ pipePc = "off" /\ changed_files = <<>>
    /\ changed_symbols = <<>> /\ files = <<>>
    /\ queue = <<>> /\ docs = NoDocs /\ processed = <<>> /\ failed = {}
    /\ srcFile = <<>> /\ span = NoSpan /\ content_hash = NoHash

SpecLoop == InitLoop /\ [][NextLoop]_vars
SpecDoc == InitDoc /\ [][NextDoc]_vars
SpecIndex == InitIndex /\ [][NextIndex]_vars
SpecStore == InitStore /\ [][NextStore]_vars
SpecTool == InitTool /\ [][NextTool]_vars
SpecPipe == InitPipe /\ [][NextPipe]_vars
SpecHash == InitHash /\ [][NextHash]_vars
SpecContext == InitContext /\ [][NextContext]_vars

(***************************************************************************)
(*                     Properties of run_agent_loop                        *)
(***************************************************************************)

\* The forced fallback attempt has run.
FallbackRan == history # <<>> /\ history[Len(history)].kind = "forced"

\* C1: run_agent_loop never raises: whatever max_steps >= 0 is and whatever
\* the completion service does at each call, the call ends by returning a
\* payload whose action is FINISH.
C1_AlwaysReturnsFinish ==
    pc # "running" => (pc = "returned" /\ result.action = "FINISH")

\* C2: the completion service is invoked at most max_steps + 1 times, and
\* when no loop iteration got a valid FINISH the run is exactly max_steps
\* iterations, then exactly one fallback completion call, then a return.
C2_ExactlyOneFallbackCall ==
    /\ calls <= max_steps + 1
    /\ (pc # "running" /\ FallbackRan) =>
          (i = max_steps /\ calls = max_steps + 1 /\ pc = "returned")

\* C3: FINISH is terminal: the step that receives a valid FINISH returns
\* exactly that payload and executes no tool, and no completion call or tool
\* call is made after the return.
C3_FinishIsTerminal ==
    [][ /\ (calls' = calls + 1 /\ response'.kind = "finish") =>
            (/\ pc' = "returned"
             /\ result' = [action |-> "FINISH", src |-> "data",
                           txt |-> response'.txt]
             /\ toolCalls' = toolCalls)
        /\ (pc = "returned" => (calls' = calls /\ toolCalls' = toolCalls))
      ]_vars

\* A valid FINISH on the first call: one completion call, no tool call, the
\* payload returned.
C3_Witness ==
    /\ pc = "returned" /\ calls = 1 /\ toolCalls = 0
    /\ response.kind = "finish" /\ result.src = "data"
    /\ result.txt = response.txt /\ max_steps >= 1

(***************************************************************************)
(*                     Properties of MarkdownWriter                        *)
(***************************************************************************)

\* Whether the text holds an open marker.
HasOpenMarker(t) == \E p \in 1..Len(t) : t[p].k = "B"

\* The header: all text before the first open marker (the whole text when
\* there is none).
HeaderOf(t) ==
    IF HasOpenMarker(t)
      THEN SubSeq(t, 1, (CHOOSE p \in 1..Len(t) :
                            t[p].k = "B" /\ \A q \in 1..(p - 1) : t[q].k # "B") - 1)
      ELSE t

\* The block of id in a text that holds one: from its open marker to the
\* nearest close marker of id after it.
BlockOf(t, id) ==
    LET b == CHOOSE p \in 1..Len(t) :
                t[p] = Begin(id) /\ \E e \in (p + 1)..Len(t) : t[e] = End(id)
        e == CHOOSE q \in (b + 1)..Len(t) :
                t[q] = End(id) /\ \A m \in (b + 1)..(q - 1) : t[m] # End(id)
    IN SubSeq(t, b, e)

\* The ids of the open markers of the text, in the order of the text.
OpenMarkerIds(t) ==
    LET opens == [n \in 1..Len(t) |-> IF t[n].k = "B" THEN <<t[n].v>> ELSE <<>>]
    IN JoinFlat(opens, 1)

\* What the claim says the file holds after reorder_sections(ids) on text t:
\* the header, then the block of every listed id that has one, each after a
\* blank line, in the order of the list, and a final newline.
ReorderedAsListed(t, ids) ==
    LET present(id) == HasBlock(t, id)
        kept == SelectSeq(ids, present)
        pieces == [n \in 1..Len(kept) |-> <<NL, NL>> \o BlockOf(t, kept[n])]
    IN Strip(HeaderOf(t)) \o JoinFlat(pieces, 1) \o <<NL>>

\* C4: write_section is idempotent: a second call with the same symbol_id
\* and content leaves the file as the first call left it.
C4_WriteSectionIdempotent ==
    lastOp.op = "write" =>
        WriteSection(docExists, text, lastOp.id, lastOp.content) = text

\* C5: after reorder_sections on a file with at least one block the file is
\* the header, then the blocks of the listed ids that have one, in the order
\* of the list, a blank line before each; a listed id without a block is
\* skipped.
C5_ReorderedAsListed ==
    [][ (lastOp'.op = "reorder" /\ BlockIds(text) # {}) =>
            text' = ReorderedAsListed(text, lastOp'.ids)
      ]_vars

\* C6: after reorder_sections no block of an id that is missing from the
\* list remains in the file.
C6_UnlistedBlocksDropped ==
    lastOp.op = "reorder" =>
        \A id \in Ids :
            (\A n \in 1..Len(lastOp.ids) : lastOp.ids[n] # id) =>
                (~HasBlock(text, id) /\ Begin(id) \notin {text[p] : p \in 1..Len(text)})

\* C7: reorder_sections is idempotent: a second call with the same list
\* leaves the file as the first call left it.
C7_ReorderIdempotent ==
    lastOp.op = "reorder" =>
        ReorderSections(docExists, text, lastOp.ids) = text

\* reorder_sections on a file with blocks has rewritten the file.
C7_Witness ==
    /\ lastOp.op = "reorder" /\ lastOp.ids = <<"b", "a">>
    /\ lastOp.before = {"a", "b", "c"}
    /\ OpenMarkerIds(text) = <<"b", "a">>

\* C8 as stated: every write_section and every reorder_sections call on a
\* file that has a block, and still has one after the call, leaves the
\* header byte-identical.
C8_HeaderByteIdentical ==
    [][ (docExists /\ HasOpenMarker(text) /\ HasOpenMarker(text')) =>
            HeaderOf(text') = HeaderOf(text)
      ]_vars

(***************************************************************************)
(*                      Properties of run_indexing                         *)
(***************************************************************************)

\* The hash the collection holds for a symbol id, 0 when it holds none.
StoredHash(st, sid) ==
    IF \E p \in st : p.payload.symbol_id = sid
      THEN (CHOOSE p \in st : p.payload.symbol_id = sid).payload.hash
      ELSE 0

\* The hash the source file gives a symbol id, 0 when it defines none.
CurrentHash(syms, sid) ==
    IF \E n \in 1..Len(syms) : syms[n].symbol_id = sid
      THEN syms[CHOOSE n \in 1..Len(syms) : syms[n].symbol_id = sid].hash
      ELSE 0

\* C9: a pass that read the store classifies a current symbol unchanged
\* exactly when the store holds a hash for its id equal to its current hash,
\* and changed/new otherwise; the deleted set is the ids stored for the
\* changed file that the file no longer defines.
C9_DiffCorrect ==
    [][ (idxPc = "idle" /\ idxPc' # "idle" /\ readOk') =>
          \A sid \in SymIdSet :
            /\ sid \in skipped_ids' <=>
                  (CurrentHash(current, sid) # 0
                   /\ StoredHash(store, sid) = CurrentHash(current, sid))
            /\ sid \in changed_ids' <=>
                  (CurrentHash(current, sid) # 0
                   /\ StoredHash(store, sid) # CurrentHash(current, sid))
            /\ sid \in deleted_ids' <=>
                  (CurrentHash(current, sid) = 0 /\ StoredHash(store, sid) # 0)
      ]_vars

\* C10: after a pass the collection holds no point under the point id of a
\* symbol id of the deleted set.
C10_DeletedPointsRemoved ==
    idxPc \in {"returned", "raised"} =>
        \A sid \in deleted_ids : \A p \in store : p.id # PointId(sid)

\* C11: when reading the stored points fails, the pass treats the stored
\* hash map as empty: it returns without raising, every indexable current
\* symbol is classified as changed and none as skipped, and each of them is
\* upserted with its current hash (of two symbols with one id the later
\* one's upsert stands).
C11_ReadFailureAllNew ==
    [][ (idxPc = "idle" /\ idxPc' # "idle" /\ ~readOk') =>
          /\ idxPc' = "returned"
          /\ changed_ids' =
                {current[n].symbol_id :
                   n \in {m \in 1..Len(current) : IsIndexable(current[m])}}
          /\ skipped_ids' = {}
          /\ deleted_ids' = {}
          /\ \A n \in 1..Len(current) :
                (/\ IsIndexable(current[n])
                 /\ \A m \in (n + 1)..Len(current) :
                       current[m].symbol_id # current[n].symbol_id) =>
                  StoredHash(store', current[n].symbol_id) = current[n].hash
      ]_vars

\* A pass whose read failed re-embedded two symbols of the changed file.
C11_Witness ==
    /\ idxPc = "returned"
    /\ ~readOk
    /\ Cardinality(changed_ids) >= 2
    /\ \A sid \in changed_ids : StoredHash(store, sid) = CurrentHash(current, sid)

\* C13: last writer wins per block id: after write_section(id, c1) followed
\* by write_section(id, c2) the block of id is the open marker, c2 on lines of
\* its own, and the close marker, and the id has this one block only.
C13_LastWriterWins ==
    (lastOp.op = "write" /\ lastOp.id \in lastOp.before) =>
        /\ BlockOf(text, lastOp.id)
              = <<Begin(lastOp.id), NL>> \o lastOp.content
                  \o <<NL, End(lastOp.id)>>
        /\ Cardinality({p \in 1..Len(text) : text[p] = Begin(lastOp.id)}) = 1

(***************************************************************************)
(*               Further properties of run_agent_loop                      *)
(***************************************************************************)

\* C14: when the forced fallback attempt returns, a FINISH response is
\* returned as the object it parsed to, and a response that is a tool call
\* or malformed is returned as action FINISH with the raw response text as
\* analysis.
C14_FallbackCoercion ==
    (pc = "returned" /\ FallbackRan) =>
        /\ response.kind = "finish" =>
              result = [action |-> "FINISH", src |-> "data",
                        txt |-> response.txt]
        /\ response.kind \in {"tool", "badjson", "nondict"} =>
              result = [action |-> "FINISH", src |-> "str_response",
                        txt |-> response.txt]

\* C15: a step that called a tool appends one entry to history whose result
\* is the tool output unchanged when it has at most 1000 characters, and its
\* first 1000 characters followed by the truncation marker when it has more.
C15_ToolResultTruncated ==
    [][ toolCalls' = toolCalls + 1 =>
          /\ Len(history') = Len(history) + 1
          /\ history'[Len(history')].kind = "tool"
          /\ history'[Len(history')].result =
                IF StrLen(tool_out') <= 1000
                  THEN tool_out'
                  ELSE Take(tool_out', 1000)
                         \o <<Piece("...(truncated)", 14)>>
      ]_vars

\* A tool returned 1001 characters and history holds the first 1000 of them
\* and the marker, after an earlier tool output of 1000 characters that
\* history holds whole.
C15_Witness ==
    /\ Len(history) = 2
    /\ history[1] = [kind |-> "tool",
                     result |-> <<Piece("tool result", 1000)>>]
    /\ tool_out = <<Piece("tool result", 1001)>>
    /\ history[2] = [kind |-> "tool",
                     result |-> <<Piece("tool result", 1000),
                                  Piece("...(truncated)", 14)>>]

\* C16: every step of the loop, the forced fallback attempt included,
\* appends one entry to the audit log and leaves the earlier entries as they
\* were.
C16_EveryStepLogged ==
    [][ (pc = "running" /\ (calls' # calls \/ history' # history \/ pc' # pc)) =>
          /\ Len(log') = Len(log) + 1
          /\ SubSeq(log', 1, Len(log)) = log
      ]_vars

\* C20: execute_tool never raises; for a name that is not registered it
\* returns the string "Error: Tool <name> not found.", and when the tool
\* function raises it returns the string "Error executing tool '<name>': "
\* followed by the exception's message; otherwise it returns what the tool
\* returned.
C20_ToolFailuresAreText ==
    /\ ~toolRaised
    /\ lastCall.op = "call" =>
         /\ observations # <<>>
         /\ observations[Len(observations)] =
               IF lastCall.name # "search_code"
                 THEN <<Piece("Error: Tool ", 12),
                        Piece(lastCall.name, NameLen(lastCall.name)),
                        Piece(" not found.", 11)>>
               ELSE IF lastCall.beh.raises
                 THEN <<Piece("Error executing tool '", 22),
                        Piece("search_code", 11), Piece("': ", 3),
                        Piece("exception message", lastCall.beh.len)>>
               ELSE <<Piece("tool result", lastCall.beh.len)>>

\* A call for an unregistered name and then a call whose tool raised both
\* returned their error strings.
C20_Witness ==
    /\ ~toolRaised
    /\ Len(observations) = 2
    /\ observations[1] = <<Piece("Error: Tool ", 12),
                           Piece("list_directory", 14),
                           Piece(" not found.", 11)>>
    /\ lastCall.name = "search_code"
    /\ lastCall.beh.raises
    /\ observations[2][1] = Piece("Error executing tool '", 22)

(***************************************************************************)
(*                      Properties of QdrantStore.add                      *)
(***************************************************************************)

\* The points of the collection whose payload names symbol id sid.
PointsOf(st, sid) == {p \in st : p.payload.symbol_id = sid}

\* The last payload of the list given for sid.
LastMetadataOf(metadatas, sid) ==
    metadatas[CHOOSE n \in 1..Len(metadatas) :
                /\ metadatas[n].symbol_id = sid
                /\ \A m \in (n + 1)..Len(metadatas) :
                      metadatas[m].symbol_id # sid]

\* C12: after any sequence of add calls the collection holds at most one
\* point per symbol_id; a symbol_id the last call was given has exactly one
\* point, carrying the payload (and so the hash) the call gave it last, and
\* the points of the other symbol ids are those from before the call.
C12_OnePointPerSymbol ==
    /\ \A sid \in AddIds : Cardinality(PointsOf(store, sid)) <= 1
    /\ lastAdd.op = "add" =>
         \A sid \in AddIds :
            IF \E n \in 1..Len(lastAdd.metadatas) :
                    lastAdd.metadatas[n].symbol_id = sid
              THEN {p.payload : p \in PointsOf(store, sid)}
                      = {LastMetadataOf(lastAdd.metadatas, sid)}
              ELSE PointsOf(store, sid) = PointsOf(lastAdd.before, sid)

\* An add call gave a new hash to a symbol_id that already had a point.
C12_Witness ==
    /\ lastAdd.op = "add"
    /\ \E p \in lastAdd.before :
         /\ p.payload.symbol_id = "A"
         /\ p.payload.hash = 1
    /\ \E n \in 1..Len(lastAdd.metadatas) :
         /\ lastAdd.metadatas[n].symbol_id = "A"
         /\ lastAdd.metadatas[n].hash = 2
    /\ StoredHash(store, "A") = 2
    /\ Cardinality(PointsOf(store, "A")) = 1

(***************************************************************************)
(*                     Properties of process_pipeline                      *)
(***************************************************************************)

\* The files the run documents, and the start line of a current symbol.
DocumentedFiles == {f \in PipeFiles : IsDocumented(f)}
StartOf(sid) ==
    current[CHOOSE n \in 1..Len(current) : current[n].symbol_id = sid].start
FileOf(sid) ==
    current[CHOOSE n \in 1..Len(current) : current[n].symbol_id = sid].file

\* C17: failure isolation: the handling of one symbol, failed or not, is
\* followed by the handling of the next symbol of the file (and then by the
\* remaining files): no symbol's failure ends the run.
C17_FailureIsolation ==
    [][ (pipePc = "symbols" /\ queue # <<>>) =>
          (pipePc' = "symbols" /\ queue' = Tail(queue))
      ]_vars

\* C18: when the run is over, the document of a changed file none of whose
\* symbols changed has been reordered: it holds no block of a symbol the
\* file no longer defines.
C18_DeletionOnlyFileReordered ==
    pipePc = "done" =>
        \A f \in DocumentedFiles :
            (\A n \in 1..Len(changed_symbols) : changed_symbols[n].file # f)
              => SectionIds(docs[MdName(f)].text) \subseteq CurrentIdsOfFile(current, f)

\* C19: the sections of a file are written in ascending start line of their
\* symbols, and when the run is over the blocks of the file's current
\* symbols stand in its document in ascending start line.
C19_SourceOrder ==
    /\ \A p \in 1..Len(processed) : \A q \in (p + 1)..Len(processed) :
          FileOf(processed[p]) = FileOf(processed[q])
            => StartOf(processed[p]) < StartOf(processed[q])
    /\ pipePc = "done" =>
          \A f \in DocumentedFiles :
            LET ids == OpenMarkerIds(docs[MdName(f)].text) IN
            \A p \in 1..Len(ids) : \A q \in (p + 1)..Len(ids) :
              (ids[p] \in CurrentIdsOfFile(current, f)
                 /\ ids[q] \in CurrentIdsOfFile(current, f))
                => StartOf(ids[p]) < StartOf(ids[q])

(***************************************************************************)
(*             Properties of MarkdownWriter: text outside blocks           *)
(***************************************************************************)

\* The text of t from position pos on that lies outside every block, the
\* blocks being matched as block_pattern matches them.
RECURSIVE OutsideFrom(_, _)
OutsideFrom(t, pos) ==
    LET starts == {p \in pos..Len(t) :
                     t[p].k = "B" /\ FindTok(t, End(t[p].v), p + 1) # 0}
    IN IF starts = {} THEN SubSeq(t, pos, Len(t))
       ELSE LET b == CHOOSE p \in starts : \A q \in starts : p <= q
                e == FindTok(t, End(t[b].v), b + 1)
            IN SubSeq(t, pos, b - 1) \o OutsideFrom(t, e + 1)

\* The free-form text after the first block: the text between the blocks
\* and the footer.
FreeTextAfterBlocks(t) ==
    IF BlockIds(t) = {} THEN <<>>
    ELSE LET b == CHOOSE p \in 1..Len(t) :
                     /\ t[p].k = "B" /\ FindTok(t, End(t[p].v), p + 1) # 0
                     /\ \A q \in 1..(p - 1) :
                           ~(t[q].k = "B" /\ FindTok(t, End(t[q].v), q + 1) # 0)
         IN OutsideFrom(t, b)

IsPrefix(s, t) == Len(s) <= Len(t) /\ SubSeq(t, 1, Len(s)) = s

\* C21: write_section and reorder_sections preserve the free-form text that
\* stands between the blocks and after the last block: it is still there,
\* in place, after the call (write_section may append to it).
C21_FreeTextPreserved ==
    [][ docExists => IsPrefix(FreeTextAfterBlocks(text),
                              FreeTextAfterBlocks(text'))
      ]_vars

(***************************************************************************)
(*            Properties of run_agent_loop: the single steps               *)
(***************************************************************************)

\* The entry a loop iteration has just appended to history.
LastEntry(h) == h[Len(h)]

\* C22: a loop response whose action names one of the three tools
\* (search_code, get_doc_for_symbol, list_directory) is executed: the
\* iteration calls the tool and stores its result in history.
C22_AllToolsInvocable ==
    [][ ( /\ pc = "running" /\ i < max_steps /\ calls' = calls + 1
          /\ invoked'.kind \in {"tool", "doc_tool", "dir_tool"} )
          => /\ toolCalls' = toolCalls + 1
             /\ LastEntry(history') =
                   HistoryEntry("tool", Truncate(tool_out'))
      ]_vars

\* C25: an iteration whose response is not valid JSON appends the one
\* corrective note to history, calls no tool and uses up one step of the
\* budget; the loop stays running, so the next iteration or, after the last
\* step, the forced fallback follows.
C25_MalformedConsumesStep ==
    [][ ( /\ pc = "running" /\ i < max_steps /\ calls' = calls + 1
          /\ invoked'.kind = "badjson" )
          => /\ history' = Append(history, HistoryEntry("badjson", <<>>))
             /\ toolCalls' = toolCalls /\ tool_out' = tool_out
             /\ i' = i + 1
             /\ pc' = "running" /\ result' = result
      ]_vars

\* With max_steps = 2 the first response was a tool call and the second was
\* invalid JSON: the corrective note used up the last step and the forced
\* fallback followed.
C25_Witness ==
    /\ max_steps = 2 /\ i = 2 /\ calls = 3 /\ toolCalls = 1
    /\ Len(history) = 3
    /\ history[1].kind = "tool"
    /\ history[2] = HistoryEntry("badjson", <<>>)
    /\ history[3].kind = "forced"
    /\ pc = "returned"

\* C26: an iteration whose response parsed to an object whose action is
\* neither FINISH nor a registered tool name appends the unknown-action note
\* to history, executes nothing and uses up one step of the budget.
C26_UnknownActionNoted ==
    [][ ( /\ pc = "running" /\ i < max_steps /\ calls' = calls + 1
          /\ invoked'.kind \notin {"raise", "raise_json", "badjson", "nondict"}
          /\ ActionOf(invoked') \notin AVAILABLE_TOOLS \cup {"FINISH"} )
          => /\ history' = Append(history, HistoryEntry("unknown", <<>>))
             /\ toolCalls' = toolCalls /\ tool_out' = tool_out
             /\ i' = i + 1
             /\ pc' = "running"
      ]_vars

(***************************************************************************)
(*                   Properties of parse_symbols_file                      *)
(***************************************************************************)

\* The exact text of the lines lo to hi of the file, terminators included.
RECURSIVE SpanText(_, _, _)
SpanText(file, lo, hi) ==
    IF lo > hi THEN <<>>
    ELSE file[lo].txt \o TermChars(file[lo].term) \o SpanText(file, lo + 1, hi)

\* C23: the hash of a symbol changes if and only if the exact text of its
\* lines changes: an edit that leaves the text of the span as it was leaves
\* the hash as it was, and an edit inside the span gives another hash.
C23_HashIffSpanText ==
    [][ (content_hash' # content_hash)
          <=> (SpanText(srcFile', span.start, span.end)
                 # SpanText(srcFile, span.start, span.end))
      ]_vars

(***************************************************************************)
(*        Properties of get_doc_for_symbol and of a single write           *)
(***************************************************************************)

\* C24: get_doc_for_symbol returns the block of the symbol, markers
\* included, when a document holds its marker pair and a not-found sentinel
\* otherwise; after write_section(doc, id, content) it returns the open
\* marker, the content and the close marker.
C24_GetDocReturnsWrittenBlock ==
    /\ \A id \in Ids :
         GetDocForSymbol(TRUE, docExists, text, id) =
            IF docExists /\ HasBlock(text, id) THEN BlockOf(text, id)
            ELSE NoDocFound(id)
    /\ ~docExists => \A id \in Ids :
         GetDocForSymbol(FALSE, docExists, text, id) = RootNotFound
    /\ lastOp.op = "write" =>
         GetDocForSymbol(TRUE, docExists, text, lastOp.id) =
            <<Begin(lastOp.id), NL>> \o lastOp.content
               \o <<NL, End(lastOp.id)>>

\* The position of the open marker of the block of id, and of its close
\* marker.
BlockStart(t, id) ==
    CHOOSE p \in 1..Len(t) :
        /\ t[p] = Begin(id) /\ \E e \in (p + 1)..Len(t) : t[e] = End(id)
        /\ \A q \in 1..(p - 1) : t[q] # Begin(id)
BlockEnd(t, id) ==
    CHOOSE q \in (BlockStart(t, id) + 1)..Len(t) :
        /\ t[q] = End(id)
        /\ \A m \in (BlockStart(t, id) + 1)..(q - 1) : t[m] # End(id)

\* C27: write_section on a document that holds a block of symbol_id puts
\* the rendered block (open marker, content, close marker) in the place of
\* the span from the block's open marker to its close marker, leaves the
\* text before and after that span as it was, and leaves the number of
\* blocks as it was.
C27_ReplacesExactlyTheBlock ==
    [][ (lastOp'.op = "write" /\ docExists /\ HasBlock(text, lastOp'.id)) =>
          /\ text' = SubSeq(text, 1, BlockStart(text, lastOp'.id) - 1)
                       \o <<Begin(lastOp'.id), NL>> \o lastOp'.content
                       \o <<NL, End(lastOp'.id)>>
                       \o SubSeq(text, BlockEnd(text, lastOp'.id) + 1,
                                 Len(text))
          /\ Len(OpenMarkerIds(text')) = Len(OpenMarkerIds(text))
      ]_vars

\* C28: write_section on a document that holds no block of symbol_id keeps
\* the text of the document as a prefix and appends a blank-line separator,
\* the rendered block and the horizontal-rule separator; a document that
\* does not exist is created with the default title header first.
C28_AppendsNewBlock ==
    [][ (lastOp'.op = "write" /\ ~(docExists /\ HasBlock(text, lastOp'.id))) =>
          /\ docExists'
          /\ text' = (IF docExists THEN text
                      ELSE <<Ch("title"), NL, NL>>)
                       \o <<NL, NL>>
                       \o <<Begin(lastOp'.id), NL>> \o lastOp'.content
                       \o <<NL, End(lastOp'.id)>>
                       \o <<NL, NL, Ch("hr")>>
      ]_vars

\* C29: reorder_sections on a document that does not exist or holds no
\* block changes nothing, whatever the list is: the text is as it was and a
\* missing file is still missing.
C29_ReorderNoOpWithoutBlocks ==
    [][ (lastOp'.op = "reorder" /\ (~docExists \/ BlockIds(text) = {})) =>
          (text' = text /\ docExists' = docExists)
      ]_vars

(***************************************************************************)
(*               Properties of run_indexing: the upserts                   *)
(***************************************************************************)

\* The points of the collection that carry symbol id sid.
StoredPointsOf(st, sid) == {p \in st : p.payload.symbol_id = sid}

\* C30: a pass upserts exactly the changed or new symbols of kind class,
\* function or method: each of them is reported as changed and its point
\* holds its current hash after the pass; a symbol whose stored hash is its
\* current hash is not reported and its point is left as it was; a symbol
\* of another kind is not reported and gets no point.
C30_UpsertsExactlyChanged ==
    [][ (idxPc = "idle" /\ idxPc' # "idle") =>
          \A n \in 1..Len(current) :
            LET sym == current[n]
                unchanged == readOk' /\ StoredHash(store, sym.symbol_id) = sym.hash
            IN
            /\ (~unchanged /\ IsIndexable(sym)) =>
                  /\ sym.symbol_id \in changed_ids'
                  /\ StoredPointsOf(store', sym.symbol_id)
                       = {Point(Metadata(sym))}
            /\ unchanged =>
                  /\ sym.symbol_id \notin changed_ids'
                  /\ StoredPointsOf(store', sym.symbol_id)
                       = StoredPointsOf(store, sym.symbol_id)
            /\ ~IsIndexable(sym) =>
                  /\ sym.symbol_id \notin changed_ids'
                  /\ StoredPointsOf(store', sym.symbol_id) = {}
      ]_vars

(***************************************************************************)
(*            Properties of run_agent_loop: tool executions                *)
(***************************************************************************)

\* C35: the number of tool executions never exceeds the number of completed
\* iterations, hence never max_steps; a step changes it by at most one, and
\* only a loop iteration whose response parsed to an object with a
\* registered tool name as action changes it; the forced fallback attempt
\* executes no tool.
C35_ToolExecutionsBounded ==
    /\ [](toolCalls <= i /\ toolCalls <= max_steps)
    /\ [][ /\ toolCalls' \in {toolCalls, toolCalls + 1}
           /\ toolCalls' # toolCalls =>
                /\ i < max_steps
                /\ i' = i + 1
                /\ invoked'.kind \in {"tool", "doc_tool", "dir_tool",
                                      "unknown", "finish"}
                /\ ActionOf(invoked') \in AVAILABLE_TOOLS
           /\ (i = max_steps /\ calls' # calls) => toolCalls' = toolCalls
       ]_vars

\* A run that executed a tool in every one of its iterations and then made
\* the fallback attempt.
C35_Witness ==
    /\ max_steps = MaxStepsBound
    /\ toolCalls = max_steps
    /\ FallbackRan
    /\ pc = "returned"

(***************************************************************************)
(*        Properties of MarkdownWriter: blocks across several calls        *)
(***************************************************************************)

\* The number of blocks of id in the text: the matches of the marker pair of
\* id, left to right, from position pos on.
RECURSIVE CountBlocksFrom(_, _, _)
CountBlocksFrom(t, id, pos) ==
    LET b == FindTok(t, Begin(id), pos)
        e == IF b = 0 THEN 0 ELSE FindTok(t, End(id), b + 1)
    IN IF e = 0 THEN 0 ELSE 1 + CountBlocksFrom(t, id, e + 1)

CountBlocks(t, id) == CountBlocksFrom(t, id, 1)

\* C33: after any sequence of write_section and reorder_sections calls on a
\* document that began with at most one block per symbol id, every symbol id
\* has at most one block in the document.
C33_AtMostOneBlockPerId ==
    \A id \in Ids : CountBlocks(text, id) <= 1

\* C37: reorder_sections does not alter a block it keeps: every listed id
\* that had a block before the call has the same block, markers and content,
\* after the call.
C37_KeptBlocksUnaltered ==
    [][ lastOp'.op = "reorder" =>
          \A n \in 1..Len(lastOp'.ids) :
            LET id == lastOp'.ids[n] IN
            HasBlock(text, id) =>
              /\ HasBlock(text', id)
              /\ BlockOf(text', id) = BlockOf(text, id)
      ]_vars

(***************************************************************************)
(*               Properties of run_indexing: the fixpoint                  *)
(***************************************************************************)

\* C34: after a pass that read the store, a second pass over the same
\* source finds nothing to do: read against the collection the first pass
\* left, no current symbol is classified as changed and no stored id as
\* deleted, so nothing is upserted and nothing deleted.
C34_SecondPassFindsNothing ==
    (idxPc \in {"returned", "raised"} /\ readOk) =>
        /\ ChangedSymbols(ReadPoints(store, TRUE), current) = <<>>
        /\ DeletedIds(ReadPoints(store, TRUE), current, ChangedFile) = {}

\* ---------------------------------------------------------------------
\* Properties of process_pipeline: the store and the documents across runs
\* ---------------------------------------------------------------------

\* C32: at the end of a run (completed or aborted) every symbol of a
\* documented file that the run classified changed and whose section the
\* run did not write (its code could not be read, generation failed, the run
\* aborted) is classified changed again by the next run's diff over the
\* same source and the collection as the run left it.
C32_UnwrittenStaysChanged ==
    pipePc \in {"done", "raised"} =>
        \A n \in 1..Len(changed_symbols) :
            LET sym == changed_symbols[n]
                next == ChangedSymbols(ReadPoints(store, TRUE), current)
            IN (/\ IsDocumented(sym.file)
                /\ \A k \in 1..Len(processed) : processed[k] # sym.symbol_id)
               => \E m \in 1..Len(next) : next[m].symbol_id = sym.symbol_id

\* ---------------------------------------------------------------------
\* Properties of the retrieval context
\* ---------------------------------------------------------------------

\* The lines of a string: the pieces between its "\n" pieces.
RECURSIVE ContextSplit(_)
ContextSplit(str) ==
    IF \A n \in 1..Len(str) : str[n] # "\n" THEN <<str>>
    ELSE LET k == CHOOSE n \in 1..Len(str) :
                    /\ str[n] = "\n"
                    /\ \A m \in 1..(n - 1) : str[m] # "\n"
         IN <<SubSeq(str, 1, k - 1)>>
              \o ContextSplit(SubSeq(str, k + 1, Len(str)))

\* C31: the retrieval context built for a symbol has no line for a result
\* whose qualname equals the query symbol; when a result survives the
\* exclusion it has exactly one line "- qualname (kind) from file" for
\* every surviving result, in rank order; and it is the sentinel
\* "No related context found." exactly when no result survives.
C31_ContextExcludesQuery ==
    context_str # Unbuilt =>
        LET lines == ContextSplit(context_str)
            others == {n \in 1..Len(results) :
                         results[n].qualname # ctxQuery}
            rank(n) == Cardinality({m \in others : m <= n})
        IN /\ \A k \in 1..Len(lines) :
                 ~(Len(lines[k]) >= 2 /\ lines[k][2] = ctxQuery)
           /\ others # {} =>
                 /\ Len(lines) = Cardinality(others)
                 /\ \A n \in others :
                       lines[rank(n)] =
                         <<"- ", results[n].qualname, " (", results[n].kind,
                           ") from ", results[n].file>>
           /\ (context_str = Sentinel) <=> (others = {})

C31_Witness ==
    /\ context_str # Unbuilt
    /\ Len(results) = 3
    /\ results[2].qualname = ctxQuery
    /\ Len(ContextSplit(context_str)) = 2
====
